---- MODULE Spec2Model ----
(***************************************************************************)
(* book-sync: the reading-position-bounded context accumulator.            *)
(*   - bookContextStore  (Context Store + Position Tracker)                *)
(*   - useTextExtraction (Extraction Coordinator)                          *)
(*   - aiAssistantStore / useAIChat / AIAssistant (Chat Session Manager)   *)
(***************************************************************************)
EXTENDS Integers, Sequences, FiniteSets, TLC

(***************************************************************************)
(* Bounds of the model.                                                    *)
(***************************************************************************)
MaxPos == 1        \* largest numeric position key handed to the store directly
MaxBody == 1       \* longest body (characters after the marker) of a direct chunk
MaxChunks == 2     \* most chunks held by the store (all books together)

Books == {"b1", "b2"}

(***************************************************************************)
(* Text.  A JavaScript string is a sequence of runs [k, n]:                *)
(*   k = "a", "b" : n >= 1 copies of an ordinary character                 *)
(*   k = "ws"     : n >= 1 white-space characters                          *)
(*   k = "page"   : the marker `[Page n]\n`                                *)
(*   k = "pct"    : the marker `[n%]\n`                                    *)
(*   k = "sep"    : the separator "\n\n" (n = 0)                           *)
(***************************************************************************)
Run(k, n) == [k |-> k, n |-> n]

Digits(n) == IF n < 10 THEN 1 ELSE IF n < 100 THEN 2 ELSE IF n < 1000 THEN 3 ELSE 4

RunLength(r) ==
    CASE r.k = "page" -> 8 + Digits(r.n)
      [] r.k = "pct"  -> 4 + Digits(r.n)
      [] r.k = "sep"  -> 2
      [] OTHER        -> r.n

RECURSIVE TextLength(_)
TextLength(t) == IF t = <<>> THEN 0 ELSE RunLength(Head(t)) + TextLength(Tail(t))

(***************************************************************************)
(* pageOrChapter: number | string.  A string is a sequence of characters.  *)
(***************************************************************************)
NumberKey(n) == [isNumber |-> TRUE, num |-> n, str |-> <<>>]
StringKey(s) == [isNumber |-> FALSE, num |-> 0, str |-> s]

DigitChars == <<"0", "1", "2", "3", "4", "5", "6", "7", "8", "9">>
IsDigit(c) == \E i \in 1..10 : DigitChars[i] = c
DigitVal(c) == (CHOOSE i \in 1..10 : DigitChars[i] = c) - 1

\* the value of the longest prefix of s made of digits, continuing from acc
RECURSIVE LeadingDigits(_, _)
LeadingDigits(s, acc) ==
    IF s = <<>> \/ ~IsDigit(Head(s)) THEN acc
    ELSE LeadingDigits(Tail(s), acc * 10 + DigitVal(Head(s)))

\* parseFloat on strings of digits and letters: NaN when no digit leads
parseFloat(s) ==
    IF s = <<>> \/ ~IsDigit(Head(s)) THEN [nan |-> TRUE, val |-> 0]
    ELSE [nan |-> FALSE, val |-> LeadingDigits(s, 0)]

\* typeof k === 'number' ? k : parseFloat(k) || 0
chunkPos(pageOrChapter) ==
    IF pageOrChapter.isNumber THEN pageOrChapter.num
    ELSE LET f == parseFloat(pageOrChapter.str)
         IN  IF f.nan \/ f.val = 0 THEN 0 ELSE f.val

Chunk(key, text) == [pageOrChapter |-> key, text |-> text]

(***************************************************************************)
(* bookContextStore state                                                  *)
(***************************************************************************)
VARIABLES
    contextChunks,      \* Map<bookId, chunk[]>: a function on the books present
    currentBookId,      \* "null" or a book id
    currentPosition,    \* the Position Tracker
    lastOp              \* trace: the operation (and branch) of the last step

storeVars == <<contextChunks, currentBookId, currentPosition>>

MAX_SAFE_INTEGER == 2147483647   \* Number.MAX_SAFE_INTEGER, cut to TLC's 32-bit integers
Undefined == [defined |-> FALSE, v |-> 0]
Some(p) == [defined |-> TRUE, v |-> p]

\* Map.get(bookId) || []
ChunksOf(chunks, bookId) == IF bookId \in DOMAIN chunks THEN chunks[bookId] ELSE <<>>

\* Map.set(bookId, v) on a copy
MapSet(m, k, v) == [x \in (DOMAIN m) \cup {k} |-> IF x = k THEN v ELSE m[x]]

\* a delete that empties the map
MapDeleteMutAll(m, k) == [x \in {} |-> m[x]]

\* Map.delete(bookId) on a copy
MapDelete(m, k) == [x \in (DOMAIN m) \ {k} |-> m[x]]

\* existing.findIndex(c => c.pageOrChapter === chunk.pageOrChapter); 0 for -1
findIndex(existing, pageOrChapter) ==
    IF \E i \in 1..Len(existing) : existing[i].pageOrChapter = pageOrChapter
    THEN CHOOSE i \in 1..Len(existing) :
            /\ existing[i].pageOrChapter = pageOrChapter
            /\ \A j \in 1..(i - 1) : existing[j].pageOrChapter # pageOrChapter
    ELSE 0

\* the comparator (a, b) => aNum - bNum
compareMutReversed(a, b) == chunkPos(b.pageOrChapter) - chunkPos(a.pageOrChapter)

compare(a, b) == chunkPos(a.pageOrChapter) - chunkPos(b.pageOrChapter)

\* insert c into the sorted sequence s after every element that does not
\* compare greater than it (Array.prototype.sort is stable)
RECURSIVE InsertSorted(_, _)
InsertSorted(s, c) ==
    IF s = <<>> THEN <<c>>
    ELSE IF compare(Head(s), c) > 0 THEN <<c>> \o s
    ELSE <<Head(s)>> \o InsertSorted(Tail(s), c)

\* array.sort(compare)
RECURSIVE sort(_)
sort(s) == IF s = <<>> THEN <<>> ELSE InsertSorted(sort(SubSeq(s, 1, Len(s) - 1)), s[Len(s)])

\* chunk.text.length > existing[existingIndex].text.length
isLongerMutOrEqual(newText, oldText) == TextLength(newText) >= TextLength(oldText)

isLonger(newText, oldText) == TextLength(newText) > TextLength(oldText)

\* the array addContextChunk leaves for the book
mergeChunk(existing, chunk) ==
    LET existingIndex == findIndex(existing, chunk.pageOrChapter)
    IN  IF existingIndex > 0
        THEN IF isLonger(chunk.text, existing[existingIndex].text)
             THEN [existing EXCEPT ![existingIndex] = chunk]
             ELSE existing
        ELSE sort(Append(existing, chunk))

\* the map addContextChunk(bookId, chunk) leaves
addedChunks(chunks, bookId, chunk) ==
    MapSet(chunks, bookId, mergeChunk(ChunksOf(chunks, bookId), chunk))

\* chunkPos <= maxPosition
inBoundMutStrict(pos, maxPosition) == pos < maxPosition

inBound(pos, maxPosition) == pos <= maxPosition

\* chunks.filter(chunk => chunkPos <= maxPosition)
RECURSIVE filterUpTo(_, _)
filterUpTo(chunks, maxPosition) ==
    IF chunks = <<>> THEN <<>>
    ELSE IF inBound(chunkPos(Head(chunks).pageOrChapter), maxPosition)
         THEN <<Head(chunks)>> \o filterUpTo(Tail(chunks), maxPosition)
         ELSE filterUpTo(Tail(chunks), maxPosition)

\* relevantChunks.map(c => c.text).join('\n\n')
RECURSIVE joinTexts(_)
joinTexts(chunks) ==
    IF chunks = <<>> THEN <<>>
    ELSE IF Len(chunks) = 1 THEN Head(chunks).text
    ELSE Head(chunks).text \o <<Run("sep", 0)>> \o joinTexts(Tail(chunks))

getContextUpToPositionIn(chunks, bookId, position) ==
    joinTexts(filterUpTo(ChunksOf(chunks, bookId), position))

getFullContextIn(chunks, bookId, upToPosition) ==
    LET maxPosition == IF upToPosition.defined THEN upToPosition.v ELSE MAX_SAFE_INTEGER
    IN  joinTexts(sort(filterUpTo(ChunksOf(chunks, bookId), maxPosition)))

getContextUpToPosition(bookId, position) ==
    getContextUpToPositionIn(contextChunks, bookId, position)

getFullContext(bookId, upToPosition) ==
    getFullContextIn(contextChunks, bookId, upToPosition)

hasContext(bookId) == Len(ChunksOf(contextChunks, bookId)) > 0

(***************************************************************************)
(* bookContextStore actions                                                *)
(***************************************************************************)
setCurrentBook(bookId) ==
    /\ currentBookId' = bookId
    /\ contextChunks' = IF bookId \in DOMAIN contextChunks
                        THEN contextChunks
                        ELSE MapSet(contextChunks, bookId, <<>>)
    /\ UNCHANGED currentPosition

addContextChunk(bookId, chunk) ==
    /\ contextChunks' = addedChunks(contextChunks, bookId, chunk)
    /\ UNCHANGED <<currentBookId, currentPosition>>

clearContext(bookId) ==
    /\ contextChunks' = MapDelete(contextChunks, bookId)
    /\ UNCHANGED <<currentBookId, currentPosition>>

updatePosition(position) ==
    /\ currentPosition' = position
    /\ UNCHANGED <<contextChunks, currentBookId>>

(***************************************************************************)
(* String helpers used by the extraction code                              *)
(***************************************************************************)
IsMergeable(k) == k \in {"a", "b", "ws"}

\* canonical form: adjacent runs of the same character are one run
RECURSIVE Normalize(_)
Normalize(t) ==
    IF Len(t) < 2 THEN t
    ELSE IF Head(t).k = t[2].k /\ IsMergeable(Head(t).k)
         THEN Normalize(<<Run(Head(t).k, Head(t).n + t[2].n)>> \o Tail(Tail(t)))
         ELSE <<Head(t)>> \o Normalize(Tail(t))

\* items.join(' ')
RECURSIVE joinSpace(_)
joinSpace(items) ==
    IF items = <<>> THEN <<>>
    ELSE IF Len(items) = 1 THEN Head(items)
    ELSE Normalize(Head(items) \o <<Run("ws", 1)>> \o joinSpace(Tail(items)))

\* .replace(/\s+/g, ' ')
collapseWhitespace(t) == [i \in 1..Len(t) |-> IF t[i].k = "ws" THEN Run("ws", 1) ELSE t[i]]

RECURSIVE dropLeadingWs(_)
dropLeadingWs(t) == IF t # <<>> /\ Head(t).k = "ws" THEN dropLeadingWs(Tail(t)) ELSE t

Reverse(t) == [i \in 1..Len(t) |-> t[Len(t) + 1 - i]]

\* .trim()
trim(t) == Reverse(dropLeadingWs(Reverse(dropLeadingWs(t))))

\* .slice(0, n)
RECURSIVE slice0(_, _)
slice0(t, n) ==
    IF t = <<>> \/ n <= 0 THEN <<>>
    ELSE IF RunLength(Head(t)) <= n
         THEN <<Head(t)>> \o slice0(Tail(t), n - RunLength(Head(t)))
         ELSE <<Run(Head(t).k, n)>>

(***************************************************************************)
(* useTextExtraction state, and the reader component that drives it        *)
(***************************************************************************)
VARIABLES
    bookId,               \* the book the reader (and its hooks) were created for
    bookType,             \* "pdf" | "epub": which reader is mounted
    extractionQueueRef,   \* inFlight
    extractedPagesRef,    \* done
    calls,                \* the extractPDFPagesUpTo invocations that have not returned
    currentPage,          \* PDFReader: useState(1)
    positionRestored,     \* PDFReader: positionRestoredRef
    currentPercentage,    \* EPUBReader: useState(0), in tenths of a percent
    viewRead              \* trace: the buckets whose rendered text the last step read from the view

extractVars == <<bookId, bookType, extractionQueueRef, extractedPagesRef, calls,
                 currentPage, positionRestored, currentPercentage, viewRead>>

MaxPage == 2          \* pages of the PDF document
MaxCalls == 2         \* extractPDFPagesUpTo invocations that overlap

NegInfinity == -2147483647     \* Math.max() of no arguments
MinMeaningful == 50            \* bodyText.trim().length > 50
MaxChunkChars == 3000          \* bodyText.slice(0, 3000)

Max(S) == CHOOSE x \in S : \A y \in S : y <= x

\* textContent.items.map(item => item.str): what a page of the document can hold
PageItems(pageNum) ==
    { <<>>,                                       \* no text items
      << <<Run("ws", 2)>> >>,                      \* white space only
      << <<Run("a", pageNum)>>, <<Run("ws", 2), Run("b", 1)>> >> }

\* items.map(...).join(' ').replace(/\s+/g, ' ').trim()
pageText(items) == trim(collapseWhitespace(joinSpace(items)))

pdfChunk(pageNum, text) == Chunk(NumberKey(pageNum), <<Run("page", pageNum)>> \o text)

\* lines 89-92
maxExtractedPage(extracted, page) ==
    IF extracted # {}
    THEN LET upTo == {p \in extracted : p <= page}
         IN  IF upTo = {} THEN NegInfinity ELSE Max(upTo)
    ELSE page

\* the pages the loop of lines 62-75 starts an extraction for
candidatePagesMutIgnoreDone(page) ==
    {i \in 1..page : i \notin extractionQueueRef}

candidatePages(page) ==
    {i \in 1..page : i \notin extractedPagesRef /\ i \notin extractionQueueRef}

\* the store and tracker after the call at index k lost its last pending page
\* (lines 83-93), or the unchanged call list with page i settled
Settled(k, i, extracted) ==
    LET call == calls[k]
        rest == [p \in (DOMAIN call.pending) \ {i} |-> call.pending[p]]
    IN  IF DOMAIN rest = {}
        THEN [calls |-> SubSeq(calls, 1, k - 1) \o SubSeq(calls, k + 1, Len(calls)),
              position |-> maxExtractedPage(extracted, call.currentPage),
              returned |-> TRUE]
        ELSE [calls |-> [calls EXCEPT ![k].pending = rest],
              position |-> currentPosition,
              returned |-> FALSE]

\* every invocation is an activation of its own: the smallest number that no call
\* which has not returned carries
callId(cs) ==
    CHOOSE n \in 1..(Len(cs) + 1) :
        /\ \A k \in 1..Len(cs) : cs[k].id # n
        /\ \A m \in 1..(n - 1) : \E k \in 1..Len(cs) : cs[k].id = m

\* extractPDFPagesUpTo(pdfDoc, page) up to its first await
extractPDFPagesUpTo(page) ==
    LET cand == candidatePages(page)
    IN  /\ viewRead' = {}
        /\ IF cand = {}
           THEN /\ calls' = calls
                /\ currentPosition' = maxExtractedPage(extractedPagesRef, page)
           ELSE /\ calls' = Append(calls, [id |-> callId(calls), currentPage |-> page,
                                           bookId |-> bookId,
                                           pending |-> [i \in cand |-> "getPage"]])
                /\ currentPosition' = currentPosition
        /\ UNCHANGED <<contextChunks, currentBookId, extractionQueueRef, extractedPagesRef>>

\* trace tag of a call: whether the loop skipped a page that is already done
extractTag(page) ==
    IF \E i \in 1..page : i \in extractedPagesRef
    THEN "extractPDFPagesUpTo:dedup" ELSE "extractPDFPagesUpTo"

\* PDFReader: the position-restore effect puts the reader on targetPage; the
\* extraction effect (lines 906-912) runs when currentPage changed
restorePosition(targetPage) ==
    /\ bookType = "pdf"
    /\ ~positionRestored
    /\ positionRestored' = TRUE
    /\ currentPage' = targetPage
    /\ IF targetPage # currentPage
       THEN extractPDFPagesUpTo(targetPage)
       ELSE /\ viewRead' = {}
            /\ UNCHANGED <<calls, storeVars, extractionQueueRef, extractedPagesRef>>
    /\ lastOp' = IF targetPage # currentPage THEN extractTag(targetPage) ELSE "restorePosition"
    /\ UNCHANGED <<bookId, bookType, currentPercentage>>

\* PDFReader: scrolling or paging to another page
setCurrentPage(page) ==
    /\ bookType = "pdf"
    /\ positionRestored
    /\ page # currentPage
    /\ currentPage' = page
    /\ extractPDFPagesUpTo(page)
    /\ lastOp' = extractTag(page)
    /\ UNCHANGED <<bookId, bookType, positionRestored, currentPercentage>>

\* the guard of line 25 without its test of done
skipExtractionMutQueueOnly(pageNum) == pageNum \in extractionQueueRef

\* extractPDFPageText: skip if already extracted or in queue
skipExtraction(pageNum) == pageNum \in extractedPagesRef \/ pageNum \in extractionQueueRef

\* pdfDoc.getPage(i) resolves and extractPDFPageText(page, i) runs to its await
getPageResolves(k, i) ==
    /\ k \in 1..Len(calls)
    /\ i \in DOMAIN calls[k].pending
    /\ calls[k].pending[i] = "getPage"
    /\ IF skipExtraction(i)
       THEN LET s == Settled(k, i, extractedPagesRef)
            IN  /\ calls' = s.calls
                /\ currentPosition' = s.position
                /\ viewRead' = {}
                /\ lastOp' = "pdf:io"
                /\ UNCHANGED extractionQueueRef
       ELSE /\ extractionQueueRef' = extractionQueueRef \cup {i}
            /\ calls' = [calls EXCEPT ![k].pending[i] = "getTextContent"]
            /\ viewRead' = {}
            /\ lastOp' = "pdf:io"
            /\ UNCHANGED currentPosition
    /\ UNCHANGED <<contextChunks, currentBookId, extractedPagesRef, bookId, bookType,
                   currentPage, positionRestored, currentPercentage>>

\* pdfDoc.getPage(i) rejects: the catch of lines 69-71
getPageRejects(k, i) ==
    /\ k \in 1..Len(calls)
    /\ i \in DOMAIN calls[k].pending
    /\ calls[k].pending[i] = "getPage"
    /\ LET s == Settled(k, i, extractedPagesRef)
       IN  /\ calls' = s.calls
           /\ currentPosition' = s.position
           /\ lastOp' = "pdf:io:error"
    /\ viewRead' = {}
    /\ UNCHANGED <<contextChunks, currentBookId, extractionQueueRef, extractedPagesRef,
                   bookId, bookType, currentPage, positionRestored, currentPercentage>>

\* the finally of line 50 without its delete
queueDeleteMutKeep(queue, pageNum) == queue

\* extractionQueueRef.current.delete(pageNum)
queueDelete(queue, pageNum) == queue \ {pageNum}

\* page.getTextContent() resolves: lines 33-46, then the finally of line 50
getTextContentResolves(k, i, items) ==
    /\ k \in 1..Len(calls)
    /\ i \in DOMAIN calls[k].pending
    /\ calls[k].pending[i] = "getTextContent"
    /\ LET text == pageText(items)
           stored == TextLength(text) > 0
           extracted == IF stored THEN extractedPagesRef \cup {i} ELSE extractedPagesRef
           s == Settled(k, i, extracted)
       IN  /\ contextChunks' = IF stored
                               THEN addedChunks(contextChunks, calls[k].bookId,
                                                pdfChunk(i, text))
                               ELSE contextChunks
           /\ extractedPagesRef' = extracted
           /\ extractionQueueRef' = queueDelete(extractionQueueRef, i)
           /\ calls' = s.calls
           /\ currentPosition' = s.position
           /\ lastOp' = "pdf:io"
    /\ viewRead' = {}
    /\ UNCHANGED <<currentBookId, bookId, bookType, currentPage, positionRestored,
                   currentPercentage>>

\* page.getTextContent() rejects: the catch of line 47, then the finally
getTextContentRejects(k, i) ==
    /\ k \in 1..Len(calls)
    /\ i \in DOMAIN calls[k].pending
    /\ calls[k].pending[i] = "getTextContent"
    /\ extractionQueueRef' = queueDelete(extractionQueueRef, i)
    /\ LET s == Settled(k, i, extractedPagesRef)
       IN  /\ calls' = s.calls
           /\ currentPosition' = s.position
           /\ lastOp' = "pdf:io:error"
    /\ viewRead' = {}
    /\ UNCHANGED <<contextChunks, currentBookId, extractedPagesRef, bookId, bookType,
                   currentPage, positionRestored, currentPercentage>>

\* a clear() that leaves the set as it is
clearedMutKeep(set) == set

\* Set.prototype.clear()
cleared(set) == {}

\* resetExtraction
resetExtraction ==
    /\ extractionQueueRef' = cleared(extractionQueueRef)
    /\ extractedPagesRef' = cleared(extractedPagesRef)
    /\ viewRead' = {}
    /\ lastOp' = "resetExtraction"
    /\ UNCHANGED <<storeVars, bookId, bookType, calls, currentPage, positionRestored,
                   currentPercentage>>

\* PDFReader / EPUBReader: the cleanup of the mount effect, run when the reader is
\* torn down, is `resetExtraction()` and nothing else
unmountReader == resetExtraction

\* the reader is given another book: the cleanup of the effect of lines 654-660 runs
\* resetExtraction, then the effect runs initializeContext for the new bookId; the
\* calls that have not returned keep the callbacks of the render that started them
changeBook(b) ==
    /\ b # bookId
    /\ bookId' = b
    /\ extractionQueueRef' = cleared(extractionQueueRef)
    /\ extractedPagesRef' = cleared(extractedPagesRef)
    /\ setCurrentBook(b)
    /\ viewRead' = {}
    /\ lastOp' = "changeBook"
    /\ UNCHANGED <<bookType, calls, currentPage, positionRestored, currentPercentage>>

(***************************************************************************)
(* EPUB: extractEPUBText                                                   *)
(***************************************************************************)
MaxBucket == 2        \* largest whole-percent bucket the EPUB reader reaches

\* read fractions, in thousandths: 0.010, 0.013, 0.020, ...
Fractions == {10 * b + d : b \in 0..MaxBucket, d \in {0, 3}}

\* Math.floor(percentage * 100)
floorPercentMutCeil(fraction) == (fraction + 9) \div 10

floorPercent(fraction) == fraction \div 10

\* doc.body?.innerText || '' of one rendered view
BodyTexts ==
    { <<Run("a", MinMeaningful)>>,
      <<Run("ws", 10), Run("a", MinMeaningful + 1)>>,
      <<Run("b", MaxChunkChars + 1)>> }

\* rendition.getContents(): views with or without a document
Views == {[doc |-> FALSE, bodyText |-> <<>>]} \cup {[doc |-> TRUE, bodyText |-> t] : t \in BodyTexts}
ContentsInputs ==
    {<<>>} \cup {<<v>> : v \in Views}
           \cup {<<v, [doc |-> TRUE, bodyText |-> <<Run("b", MaxChunkChars + 1)>>]>> : v \in Views}

epubChunk(positionKey, bodyText) ==
    Chunk(NumberKey(positionKey), <<Run("pct", positionKey)>> \o slice0(bodyText, MaxChunkChars))

\* bodyText.trim().length > 50
isMeaningful(bodyText) == TextLength(trim(bodyText)) > MinMeaningful

\* the loop of lines 109-125 over the views, from the given store and done set
RECURSIVE epubLoop(_, _, _, _, _)
epubLoop(contents, positionKey, book, chunks, extracted) ==
    IF contents = <<>> THEN [chunks |-> chunks, extracted |-> extracted]
    ELSE LET content == Head(contents)
         IN  IF content.doc /\ isMeaningful(content.bodyText) /\ positionKey \notin extracted
             THEN epubLoop(Tail(contents), positionKey, book,
                           addedChunks(chunks, book, epubChunk(positionKey, content.bodyText)),
                           extracted \cup {positionKey})
             ELSE epubLoop(Tail(contents), positionKey, book, chunks, extracted)

\* extractEPUBText(book, rendition, percentage); getContentsThrows: the try block fails
\* at rendition.getContents(), and contents is not looked at
extractEPUBText(fraction, contents, getContentsThrows) ==
    LET positionKey == floorPercent(fraction)
        r == epubLoop(contents, positionKey, bookId, contextChunks, extractedPagesRef)
    IN  IF getContentsThrows
        THEN /\ viewRead' = {}
             /\ lastOp' = "extractEPUBText:error"
             /\ UNCHANGED <<storeVars, extractedPagesRef>>
        ELSE /\ contextChunks' = r.chunks
             /\ extractedPagesRef' = r.extracted
             /\ currentPosition' = positionKey
             /\ viewRead' = IF \E i \in 1..Len(contents) : contents[i].doc
                            THEN {positionKey} ELSE {}
             /\ lastOp' = IF r.extracted # extractedPagesRef THEN "extractEPUBText:stored"
                          ELSE IF positionKey \in extractedPagesRef THEN "extractEPUBText:done"
                          ELSE "extractEPUBText:none"
             /\ UNCHANGED currentBookId

\* EPUBReader: the relocated handler (lines 395-418)
relocated(fraction, contents, getContentsThrows) ==
    /\ bookType = "epub"
    /\ currentPercentage' = fraction
    /\ extractEPUBText(fraction, contents, getContentsThrows)
    /\ UNCHANGED <<bookId, bookType, extractionQueueRef, calls, currentPage, positionRestored>>

\* the position prop the reader hands to AIAssistant
viewerPosition ==
    IF bookType = "pdf" THEN currentPage ELSE currentPercentage \div 10

(***************************************************************************)
(* Gateway relay: the ReadableStream of the chat route                     *)
(***************************************************************************)
VARIABLES
    relay,                \* start(controller): its position and what the upstream has sent
    stream                \* the client-facing ReadableStream and what the client received

relayVars == <<relay, stream>>

RelayReads == 2       \* upstream reads with data
RelayLines == 2       \* lines of one upstream read

ContentEvent(n) == [k |-> "content", n |-> n]   \* data: {"content": ...}
DoneEvent == [k |-> "done", n |-> 0]            \* data: [DONE]
ErrorEvent == [k |-> "error", n |-> 0]          \* the read of the client rejects
EndEvent == [k |-> "end", n |-> 0]              \* the read of the client reports done

InitRelay ==
    /\ relay = [pc |-> "idle", reads |-> 0, frags |-> 0, cut |-> FALSE]
    /\ stream = [state |-> "readable", queue |-> <<>>, readPending |-> FALSE,
                 received |-> <<>>]

\* controller.enqueue(chunk): a waiting read of the client takes the chunk, else it
\* is queued
enqueue(s, chunk) ==
    IF s.readPending
    THEN [s EXCEPT !.received = Append(@, chunk), !.readPending = FALSE]
    ELSE [s EXCEPT !.queue = Append(@, chunk)]

\* controller.error(e): drops the queue and errors the stream, unless the stream is
\* closed or errored already
controllerError(s) ==
    IF s.state \in {"readable", "closeRequested"}
    THEN [state |-> "errored", queue |-> <<>>, readPending |-> FALSE,
          received |-> Append(s.received, ErrorEvent)]
    ELSE s

\* controller.close(): closes at once when the queue is empty, else when the client
\* has read the queue. On a stream that is closing, closed or errored it throws; the
\* throw leaves start(), whose rejection errors the controller.
controllerClose(s) ==
    IF s.state # "readable" THEN controllerError(s)
    ELSE IF s.queue = <<>>
         THEN [s EXCEPT !.state = "closed", !.readPending = FALSE,
                        !.received = Append(@, EndEvent)]
    ELSE [s EXCEPT !.state = "closeRequested"]

\* the for loop of lines 132-150 over the lines of one upstream read. Line kinds:
\*   "content"  data: <JSON with choices[0].delta.content>
\*   "empty"    data: <JSON without content>
\*   "done"     data: [DONE]: enqueue the sentinel, close, return, then the finally
\*   "head"     the first piece of a content line that a read boundary cut
\*   "tail"     the rest of that line
\* frags counts the content lines the upstream has sent, whole or cut
RECURSIVE relayLines(_, _, _)
relayLines(lines, s, frags) ==
    IF lines = <<>> THEN [stream |-> s, frags |-> frags, returned |-> FALSE]
    ELSE IF Head(lines) = "done"
         THEN [stream |-> controllerClose(controllerClose(enqueue(s, DoneEvent))),
               frags |-> frags, returned |-> TRUE]
    ELSE IF Head(lines) = "content"
         THEN relayLines(Tail(lines), enqueue(s, ContentEvent(frags + 1)), frags + 1)
    ELSE IF Head(lines) = "head"
         THEN relayLines(Tail(lines), s, frags + 1)
    ELSE relayLines(Tail(lines), s, frags)

\* what one upstream read can hold between the pieces of cut lines
UpstreamLines ==
    UNION {[1..n -> {"content", "empty", "done"}] : n \in 0..RelayLines}

\* start(controller), lines 117-122
relayStart(hasReader) ==
    /\ relay.pc = "idle"
    /\ IF hasReader
       THEN /\ relay' = [relay EXCEPT !.pc = "read"]
            /\ stream' = stream
       ELSE /\ relay' = [relay EXCEPT !.pc = "returned"]
            /\ stream' = controllerClose(stream)
    /\ lastOp' = "relay:start"

\* reader.read() of the upstream resolves with data, lines 126-150
upstreamReadResolves(whole, cutLast) ==
    /\ relay.pc = "read"
    /\ relay.reads < RelayReads
    /\ LET lines == (IF relay.cut THEN <<"tail">> ELSE <<>>) \o whole
                        \o (IF cutLast THEN <<"head">> ELSE <<>>)
           r == relayLines(lines, stream, relay.frags)
       IN  /\ lines # <<>>
           /\ stream' = r.stream
           /\ relay' = [pc |-> IF r.returned THEN "returned" ELSE "read",
                        reads |-> relay.reads + 1, frags |-> r.frags,
                        cut |-> cutLast /\ ~r.returned]
    /\ lastOp' = "relay:read"

\* reader.read() of the upstream reports done: break, then the finally
upstreamReadDone ==
    /\ relay.pc = "read"
    /\ ~relay.cut
    /\ stream' = controllerClose(stream)
    /\ relay' = [relay EXCEPT !.pc = "returned"]
    /\ lastOp' = "relay:end"

\* reader.read() of the upstream rejects: the catch of lines 152-154, then the finally
upstreamReadRejects ==
    /\ relay.pc = "read"
    /\ stream' = controllerClose(controllerError(stream))
    /\ relay' = [relay EXCEPT !.pc = "returned"]
    /\ lastOp' = "relay:error"

\* the client side of the Response reads the stream
clientRead ==
    /\ stream.state \in {"readable", "closeRequested"}
    /\ ~stream.readPending
    /\ IF stream.queue # <<>>
       THEN LET rest == Tail(stream.queue)
                got == Append(stream.received, Head(stream.queue))
            IN  IF rest = <<>> /\ stream.state = "closeRequested"
                THEN stream' = [state |-> "closed", queue |-> <<>>, readPending |-> FALSE,
                                received |-> Append(got, EndEvent)]
                ELSE stream' = [stream EXCEPT !.queue = rest, !.received = got]
       ELSE stream' = [stream EXCEPT !.readPending = TRUE]
    /\ relay' = relay
    /\ lastOp' = "relay:clientRead"

(***************************************************************************)
(* aiAssistantStore and useAIChat                                          *)
(***************************************************************************)
VARIABLES
    chatHistory,          \* Map<bookId, ChatMessage[]>
    isLoading,
    streamingResponse,
    error,                \* "null" or a message
    abortControllerRef,   \* 0 for null, else the request whose controller it holds
    requests,             \* every sendMessage invocation that passed its guard, in order
    hookIsLoading         \* the isLoading that the rendered sendMessage closure captured

chatVars == <<chatHistory, isLoading, streamingResponse, error, abortControllerRef,
              requests, hookIsLoading, relayVars>>

vars == <<storeVars, lastOp, extractVars, chatVars>>

MaxRequests == 2      \* sendMessage invocations that pass the guard
MaxReads == 1         \* reads with data of one response body
MaxLines == 1         \* content lines in one read

NoContentError == "No content has been read yet. Start reading to use the AI assistant!"
NetworkError == "Unable to reach the AI assistant. Check your connection and ensure the AI API key is configured."
GenericError == "Failed to get response"
NoBodyError == "No response body"
ServerErrors == {"AI service temporarily unavailable or rate-limited. Please wait a few seconds and try again."}
JsonSyntaxError == "Unexpected token < in JSON at position 0"

\* the j-th content fragment of the response to request r
Fragment(r, j) == Run("tok", 10 * r + j)

Message(role, content) == [role |-> role, content |-> content]

\* getChatHistory
HistoryOf(history, book) == IF book \in DOMAIN history THEN history[book] ELSE <<>>

\* addMessage
addedMessage(history, book, message) ==
    MapSet(history, book, Append(HistoryOf(history, book), message))

\* finalizeStreamingMessage: the history and buffer it leaves
finalized(history, buffer, book) ==
    IF buffer # <<>>
    THEN [history |-> addedMessage(history, book, Message("assistant", buffer)),
          buffer |-> <<>>]
    ELSE [history |-> history, buffer |-> buffer]

\* the for loop of lines 106-122 over the lines of one read
\* line kinds: "content"  data: {"content": <fragment>}
\*             "done"     data: [DONE]
\*             "empty"    data: {"content": ""}
\*             "invalid"  data: <not JSON>
\*             "other"    a line without the data: prefix
\*             "head"     the first piece of a content line that a read boundary cut:
\*                        it has the data: prefix and JSON.parse throws on it
\*             "tail"     the rest of that line: it has no data: prefix
\* frags counts the content lines that have arrived, whole or cut
RECURSIVE processLines(_, _, _, _, _, _)
processLines(lines, history, buffer, book, r, frags) ==
    IF lines = <<>> THEN [history |-> history, buffer |-> buffer, frags |-> frags]
    ELSE IF Head(lines) = "done"
         THEN LET f == finalized(history, buffer, book)
              IN  [history |-> f.history, buffer |-> f.buffer, frags |-> frags]
    ELSE IF Head(lines) = "content"
         THEN processLines(Tail(lines), history, buffer \o <<Fragment(r, frags + 1)>>,
                           book, r, frags + 1)
    ELSE IF Head(lines) = "head"
         THEN processLines(Tail(lines), history, buffer, book, r, frags + 1)
    ELSE processLines(Tail(lines), history, buffer, book, r, frags)

Request(pc, fate, context, position) ==
    [pc |-> pc, fate |-> fate, context |-> context, position |-> position,
     reads |-> 0, frags |-> 0, doneSent |-> FALSE, cut |-> FALSE]

\* the request body is gone once fetch has resolved
Responded(req, pc) == [Request(pc, req.fate, <<>>, 0) EXCEPT !.reads = req.reads, !.frags = req.frags]

\* a request that reached its finally block, or whose await was rejected by abort()
Ended(req, fate) == Request("done", fate, <<>>, 0)

\* controller.abort() on the request that owns the stored controller
abortedRequests(reqs, r) == IF r = 0 THEN reqs ELSE [reqs EXCEPT ![r] = Ended(reqs[r], "aborted")]

InFlight(r) == r \in 1..Len(requests) /\ requests[r].pc # "done"

\* !bookContext || bookContext.trim().length === 0
isEmptyContextMutNever(bookContext) == FALSE

isEmptyContext(bookContext) == TextLength(trim(bookContext)) = 0

\* sendMessage(message, position), with the continuation of a request it aborted
sendMessage(message, position) ==
    LET content == trim(message)
    IN  IF content = <<>> \/ hookIsLoading
        THEN /\ lastOp' = "sendMessage:noop"
             /\ UNCHANGED chatVars
        ELSE LET id == Len(requests) + 1
                 previous == abortControllerRef
                 effectivePosition == IF position.defined THEN position.v ELSE currentPosition
                 bookContext == getFullContext(bookId, Some(effectivePosition))
                 blocked == isEmptyContext(bookContext)
             IN  /\ chatHistory' = addedMessage(chatHistory, bookId, Message("user", content))
                 /\ streamingResponse' = <<>>
                 /\ error' = IF blocked THEN NoContentError ELSE "null"
                 /\ requests' = Append(abortedRequests(requests, previous),
                                       IF blocked
                                       THEN Request("done", "blocked", <<>>, 0)
                                       ELSE Request("fetch", "pending", bookContext, effectivePosition))
                 \* the catch/finally of the aborted request runs after this call's
                 \* synchronous part: setLoading(false); abortControllerRef.current = null
                 /\ isLoading' = (~blocked /\ previous = 0)
                 /\ abortControllerRef' = IF ~blocked /\ previous = 0 THEN id ELSE 0
                 /\ lastOp' = IF blocked THEN "sendMessage:blocked"
                              ELSE IF previous # 0 THEN "sendMessage:superseding"
                              ELSE "sendMessage:sent"
                 /\ UNCHANGED hookIsLoading

\* AIAssistant.handleSendMessage; the input and the button are disabled without context
handleSendMessage(inputValue) ==
    /\ hasContext(bookId)
    /\ trim(inputValue) # <<>>
    /\ ~hookIsLoading
    /\ sendMessage(trim(inputValue),
                   Some(IF viewerPosition # 0 THEN viewerPosition ELSE currentPosition))

\* cancelRequest, with the continuation of the request it aborted
cancelRequest ==
    IF abortControllerRef # 0
    THEN /\ requests' = abortedRequests(requests, abortControllerRef)
         /\ abortControllerRef' = 0
         /\ isLoading' = FALSE
         /\ lastOp' = "cancelRequest"
         /\ UNCHANGED <<chatHistory, streamingResponse, error, hookIsLoading>>
    ELSE /\ lastOp' = "cancelRequest:noop"
         /\ UNCHANGED chatVars

\* clearChat(bookId)
clearChat ==
    /\ chatHistory' = MapDelete(chatHistory, bookId)
    /\ lastOp' = "clearChat"
    /\ UNCHANGED <<isLoading, streamingResponse, error, abortControllerRef, requests,
                   hookIsLoading>>

\* the component renders again and sendMessage is rebuilt with the store's isLoading
render ==
    /\ hookIsLoading # isLoading
    /\ hookIsLoading' = isLoading
    /\ lastOp' = "render"
    /\ UNCHANGED <<chatHistory, isLoading, streamingResponse, error, abortControllerRef,
                   requests>>

\* the catch (with the message it sets, "keep" for none) and finally of request r
failed(r, message, op) ==
    /\ requests' = [requests EXCEPT ![r] = Ended(requests[r], "failed")]
    /\ error' = message
    /\ isLoading' = FALSE
    /\ abortControllerRef' = 0
    /\ hookIsLoading' = FALSE
    /\ lastOp' = op
    /\ UNCHANGED <<chatHistory, streamingResponse>>

\* fetch resolves with a response
fetchResolves(r, ok, hasBody) ==
    /\ InFlight(r)
    /\ requests[r].pc = "fetch"
    /\ IF ~ok
       THEN /\ requests' = [requests EXCEPT ![r] = Responded(requests[r], "json")]
            /\ hookIsLoading' = isLoading
            /\ lastOp' = "fetch:not-ok"
            /\ UNCHANGED <<chatHistory, isLoading, streamingResponse, error, abortControllerRef>>
       ELSE IF ~hasBody
       THEN failed(r, NoBodyError, "fetch:no-body")
       ELSE /\ requests' = [requests EXCEPT ![r] = Responded(requests[r], "read")]
            /\ hookIsLoading' = isLoading
            /\ lastOp' = "fetch:ok"
            /\ UNCHANGED <<chatHistory, isLoading, streamingResponse, error, abortControllerRef>>

\* fetch rejects with a TypeError (network failure)
fetchRejects(r) ==
    /\ InFlight(r)
    /\ requests[r].pc = "fetch"
    /\ failed(r, NetworkError, "fetch:error")

\* response.json() of a non-2xx response resolves; line 88 throws
jsonResolves(r, errorField) ==
    /\ InFlight(r)
    /\ requests[r].pc = "json"
    /\ failed(r, IF errorField = "" THEN GenericError ELSE errorField, "response:error")

\* response.json() rejects with a SyntaxError
jsonRejects(r) ==
    /\ InFlight(r)
    /\ requests[r].pc = "json"
    /\ failed(r, JsonSyntaxError, "response:bad-json")

\* reader.read() resolves with data: the rest of a line the read before cut, n whole
\* content lines, then [DONE] when withDone, or the first piece of a further content
\* line when cutLast
readResolves(r, n, withDone, cutLast) ==
    /\ InFlight(r)
    /\ requests[r].pc = "read"
    /\ ~requests[r].doneSent
    /\ ~(withDone /\ cutLast)
    /\ n + (IF withDone \/ cutLast \/ requests[r].cut THEN 1 ELSE 0) >= 1
    /\ LET lines == (IF requests[r].cut THEN <<"tail">> ELSE <<>>)
                        \o [i \in 1..n |-> "content"]
                        \o (IF withDone THEN <<"done">> ELSE <<>>)
                        \o (IF cutLast THEN <<"head">> ELSE <<>>)
           p == processLines(lines, chatHistory, streamingResponse, bookId, r, requests[r].frags)
       IN  /\ chatHistory' = p.history
           /\ streamingResponse' = p.buffer
           /\ requests' = [requests EXCEPT ![r].reads = @ + 1, ![r].frags = p.frags,
                                           ![r].doneSent = withDone, ![r].cut = cutLast]
    /\ hookIsLoading' = isLoading
    /\ lastOp' = IF withDone THEN "read:done-line" ELSE "read:content"
    /\ UNCHANGED <<isLoading, error, abortControllerRef>>

\* reader.read() resolves with done: lines 125-129, then the finally
readDone(r) ==
    /\ InFlight(r)
    /\ requests[r].pc = "read"
    /\ ~requests[r].cut
    /\ LET f == finalized(chatHistory, streamingResponse, bookId)
       IN  /\ chatHistory' = f.history
           /\ streamingResponse' = f.buffer
    /\ requests' = [requests EXCEPT ![r] = Ended(requests[r], "finished")]
    /\ isLoading' = FALSE
    /\ abortControllerRef' = 0
    /\ hookIsLoading' = FALSE
    /\ lastOp' = "read:end"
    /\ UNCHANGED error

\* reader.read() rejects with a TypeError (the connection or the relay failed)
readRejects(r) ==
    /\ InFlight(r)
    /\ requests[r].pc = "read"
    /\ failed(r, NetworkError, "read:error")

(***************************************************************************)
(* Specifications                                                          *)
(***************************************************************************)
EmptyMap == [x \in {} |-> <<>>]

InitChat ==
    /\ chatHistory = EmptyMap
    /\ isLoading = FALSE
    /\ streamingResponse = <<>>
    /\ error = "null"
    /\ abortControllerRef = 0
    /\ requests = <<>>
    /\ hookIsLoading = FALSE
    /\ InitRelay

InitExtraction ==
    /\ bookId = "b1"
    /\ extractionQueueRef = {}
    /\ extractedPagesRef = {}
    /\ calls = <<>>
    /\ currentPage = 1
    /\ positionRestored = FALSE
    /\ currentPercentage = 0
    /\ viewRead = {}

\* ---- the store on its own: any caller, any key -------------------------
KeyInputs ==
    {NumberKey(n) : n \in 0..MaxPos} \cup {StringKey(<<"1">>), StringKey(<<"x">>)}

BodyInputs == {<<>>} \cup {<<Run(c, n)>> : c \in {"a", "b"}, n \in 1..MaxBody}

\* callers prefix the text with the marker of the position
ChunkInputs == {Chunk(k, <<Run("page", chunkPos(k))>> \o b) : k \in KeyInputs, b \in BodyInputs}

RECURSIVE SumLen(_, _)
SumLen(chunks, S) ==
    IF S = {} THEN 0
    ELSE LET b == CHOOSE x \in S : TRUE IN Len(chunks[b]) + SumLen(chunks, S \ {b})

TotalChunks == SumLen(contextChunks, DOMAIN contextChunks)

InitStore ==
    /\ contextChunks = EmptyMap
    /\ currentBookId = "null"
    /\ currentPosition = 0
    /\ lastOp = "init"
    /\ bookType = "pdf"
    /\ InitExtraction
    /\ InitChat

StoreSetCurrentBook ==
    \E b \in Books :
        /\ setCurrentBook(b)
        /\ lastOp' = "setCurrentBook"
        /\ UNCHANGED <<extractVars, chatVars>>

StoreAddContextChunk ==
    \E b \in Books, c \in ChunkInputs :
        LET existing == ChunksOf(contextChunks, b)
            existingIndex == findIndex(existing, c.pageOrChapter)
        IN  /\ existingIndex = 0 => TotalChunks < MaxChunks
            /\ addContextChunk(b, c)
            /\ lastOp' = IF existingIndex = 0
                         THEN (IF ChunksOf(contextChunks', b) = Append(existing, c)
                               THEN "addContextChunk:push" ELSE "addContextChunk:insert")
                         ELSE IF ChunksOf(contextChunks', b) # existing
                              THEN "addContextChunk:replace"
                         ELSE IF TextLength(c.text) = TextLength(existing[existingIndex].text)
                              THEN "addContextChunk:keep-equal"
                         ELSE "addContextChunk:keep-shorter"
            /\ UNCHANGED <<extractVars, chatVars>>

StoreClearContext ==
    \E b \in Books :
        /\ clearContext(b)
        /\ lastOp' = "clearContext"
        /\ UNCHANGED <<extractVars, chatVars>>

StoreUpdatePosition ==
    \E p \in 0..MaxPos :
        /\ updatePosition(p)
        /\ lastOp' = "updatePosition"
        /\ UNCHANGED <<extractVars, chatVars>>

NextStore ==
    \/ StoreSetCurrentBook
    \/ StoreAddContextChunk
    \/ StoreClearContext
    \/ StoreUpdatePosition

SpecStore == InitStore /\ [][NextStore]_vars

\* ---- a mounted reader: initializeContext has run -------------------------
InitReader ==
    /\ InitExtraction
    /\ contextChunks = [b \in {bookId} |-> <<>>]
    /\ currentBookId = bookId
    /\ currentPosition = 0
    /\ lastOp = "initializeContext"
    /\ bookType \in {"pdf", "epub"}
    /\ InitChat

RestorePosition(pages) == \E p \in 1..pages : restorePosition(p)
SetCurrentPage(pages) == \E p \in 1..pages : setCurrentPage(p)
GetPageResolves == \E k \in 1..Len(calls) : \E i \in DOMAIN calls[k].pending : getPageResolves(k, i)
GetPageRejects == \E k \in 1..Len(calls) : \E i \in DOMAIN calls[k].pending : getPageRejects(k, i)
GetTextContentResolves ==
    \E k \in 1..Len(calls) : \E i \in DOMAIN calls[k].pending :
        \E items \in PageItems(i) : getTextContentResolves(k, i, items)
GetTextContentRejects ==
    \E k \in 1..Len(calls) : \E i \in DOMAIN calls[k].pending : getTextContentRejects(k, i)
Relocated ==
    \E f \in Fractions :
        \/ \E c \in ContentsInputs : relocated(f, c, FALSE)
        \/ relocated(f, <<>>, TRUE)

\* at most n extractPDFPagesUpTo invocations overlap; the chat is not touched
ExtractionFrame(n) == Len(calls') <= n /\ UNCHANGED chatVars

NextExtract ==
    \/ RestorePosition(MaxPage) /\ ExtractionFrame(MaxCalls)
    \/ SetCurrentPage(MaxPage) /\ ExtractionFrame(MaxCalls)
    \/ GetPageResolves /\ ExtractionFrame(MaxCalls)
    \/ GetPageRejects /\ ExtractionFrame(MaxCalls)
    \/ GetTextContentResolves /\ ExtractionFrame(MaxCalls)
    \/ GetTextContentRejects /\ ExtractionFrame(MaxCalls)
    \/ Relocated /\ ExtractionFrame(MaxCalls)
    \/ resetExtraction /\ ExtractionFrame(MaxCalls)

SpecExtract == InitReader /\ [][NextExtract]_vars

\* ---- one pass over a longer PDF document -----------------------------------
BatchPages == 4       \* pages of the PDF document
BatchCalls == 1       \* extractPDFPagesUpTo invocations that overlap

InitBatch == InitReader /\ bookType = "pdf"

NextBatch ==
    \/ RestorePosition(BatchPages) /\ ExtractionFrame(BatchCalls)
    \/ SetCurrentPage(BatchPages) /\ ExtractionFrame(BatchCalls)
    \/ GetPageResolves /\ ExtractionFrame(BatchCalls)
    \/ GetPageRejects /\ ExtractionFrame(BatchCalls)
    \/ GetTextContentResolves /\ ExtractionFrame(BatchCalls)
    \/ GetTextContentRejects /\ ExtractionFrame(BatchCalls)

SpecBatch == InitBatch /\ [][NextBatch]_vars

\* the page fetch or the text retrieval of page i in the call id settles
PdfIO(id, i) ==
    /\ \E k \in 1..Len(calls) :
          /\ calls[k].id = id
          /\ \/ getPageResolves(k, i)
             \/ getPageRejects(k, i)
             \/ \E items \in PageItems(i) : getTextContentResolves(k, i, items)
             \/ getTextContentRejects(k, i)
    /\ ExtractionFrame(BatchCalls)

\* every page fetch and every text retrieval eventually resolves or rejects
SpecTermination ==
    SpecBatch /\ \A id \in 1..BatchCalls, i \in 1..BatchPages : WF_vars(PdfIO(id, i))

\* ---- the reader is handed from one book to another ---------------------------
SwitchCalls == 1      \* extractPDFPagesUpTo invocations that overlap

ChangeBook == \E b \in Books : changeBook(b)

NextSwitch ==
    \/ RestorePosition(MaxPage) /\ ExtractionFrame(SwitchCalls)
    \/ SetCurrentPage(MaxPage) /\ ExtractionFrame(SwitchCalls)
    \/ GetPageResolves /\ ExtractionFrame(SwitchCalls)
    \/ GetPageRejects /\ ExtractionFrame(SwitchCalls)
    \/ GetTextContentResolves /\ ExtractionFrame(SwitchCalls)
    \/ GetTextContentRejects /\ ExtractionFrame(SwitchCalls)
    \/ resetExtraction /\ ExtractionFrame(SwitchCalls)
    \/ ChangeBook /\ ExtractionFrame(SwitchCalls)

SpecSwitch == InitBatch /\ [][NextSwitch]_vars

\* ---- the reader with its chat panel ---------------------------------------
ChatPages == 2        \* pages of the PDF document read next to the chat
ChatCalls == 1        \* extractPDFPagesUpTo invocations that overlap

MessageInputs == {<<>>, <<Run("ws", 1)>>, <<Run("ws", 1), Run("a", 1), Run("ws", 1)>>}

SendMessage == \E m \in MessageInputs : sendMessage(m, Undefined)
HandleSendMessage == \E m \in MessageInputs : handleSendMessage(m)
FetchResolves == \E r \in 1..Len(requests) : \E ok \in BOOLEAN, hasBody \in BOOLEAN : fetchResolves(r, ok, hasBody)
FetchRejects == \E r \in 1..Len(requests) : fetchRejects(r)
JsonResolves == \E r \in 1..Len(requests) : \E e \in ServerErrors \cup {""} : jsonResolves(r, e)
JsonRejects == \E r \in 1..Len(requests) : jsonRejects(r)
\* cuts: whether a read may end in the middle of a line
ReadResolves(cuts) ==
    \E r \in 1..Len(requests) : \E n \in 0..MaxLines, d \in BOOLEAN, c \in cuts :
        readResolves(r, n, d, c)
WholeLines == {FALSE}
AnySplit == BOOLEAN
ReadDone == \E r \in 1..Len(requests) : readDone(r)
ReadRejects == \E r \in 1..Len(requests) : readRejects(r)

\* a chat step touches neither the store nor the extraction
ChatFrame == UNCHANGED <<storeVars, extractVars, relayVars>>

\* a reader step next to the chat: the store update re-renders the panel
ReaderFrame ==
    /\ Len(calls') <= ChatCalls
    /\ hookIsLoading' = isLoading
    /\ UNCHANGED <<chatHistory, isLoading, streamingResponse, error, abortControllerRef,
                   requests, relayVars>>

\* at most n reads of one response body deliver data
ReadFrame(n) == (\A r \in 1..Len(requests') : requests'[r].reads <= n) /\ ChatFrame

\* at most n sendMessage invocations pass the guard
RequestFrame(n) == Len(requests') <= n /\ ChatFrame

NextChat ==
    \/ SendMessage /\ RequestFrame(MaxRequests)
    \/ HandleSendMessage /\ RequestFrame(MaxRequests)
    \/ cancelRequest /\ ChatFrame
    \/ clearChat /\ ChatFrame
    \/ render /\ ChatFrame
    \/ FetchResolves /\ ChatFrame
    \/ FetchRejects /\ ChatFrame
    \/ JsonResolves /\ ChatFrame
    \/ JsonRejects /\ ChatFrame
    \/ ReadResolves(WholeLines) /\ ReadFrame(MaxReads)
    \/ ReadDone /\ ChatFrame
    \/ ReadRejects /\ ChatFrame
    \/ RestorePosition(ChatPages) /\ ReaderFrame
    \/ SetCurrentPage(ChatPages) /\ ReaderFrame
    \/ GetPageResolves /\ ReaderFrame
    \/ GetPageRejects /\ ReaderFrame
    \/ GetTextContentResolves /\ ReaderFrame
    \/ GetTextContentRejects /\ ReaderFrame

InitChatReader == InitReader /\ bookType = "pdf"

SpecChat == InitChatReader /\ [][NextChat]_vars

\* ---- the chat panel with one more request -----------------------------------
StreamRequests == 3   \* sendMessage invocations that pass the guard

NextStream ==
    \/ SendMessage /\ RequestFrame(StreamRequests)
    \/ HandleSendMessage /\ RequestFrame(StreamRequests)
    \/ cancelRequest /\ ChatFrame
    \/ clearChat /\ ChatFrame
    \/ render /\ ChatFrame
    \/ FetchResolves /\ ChatFrame
    \/ FetchRejects /\ ChatFrame
    \/ JsonResolves /\ ChatFrame
    \/ JsonRejects /\ ChatFrame
    \/ ReadResolves(WholeLines) /\ ReadFrame(MaxReads)
    \/ ReadDone /\ ChatFrame
    \/ ReadRejects /\ ChatFrame
    \/ RestorePosition(ChatPages) /\ ReaderFrame
    \/ SetCurrentPage(ChatPages) /\ ReaderFrame
    \/ GetPageResolves /\ ReaderFrame
    \/ GetPageRejects /\ ReaderFrame
    \/ GetTextContentResolves /\ ReaderFrame
    \/ GetTextContentRejects /\ ReaderFrame

SpecStream == InitChatReader /\ [][NextStream]_vars

\* ---- one response body split into network reads -----------------------------
DecodeRequests == 1   \* sendMessage invocations that pass the guard
DecodeReads == 2      \* reads with data of one response body

NextDecode ==
    \/ SendMessage /\ RequestFrame(DecodeRequests)
    \/ FetchResolves /\ ChatFrame
    \/ ReadResolves(AnySplit) /\ ReadFrame(DecodeReads)
    \/ ReadDone /\ ChatFrame
    \/ RestorePosition(ChatPages) /\ ReaderFrame
    \/ SetCurrentPage(ChatPages) /\ ReaderFrame
    \/ GetPageResolves /\ ReaderFrame
    \/ GetPageRejects /\ ReaderFrame
    \/ GetTextContentResolves /\ ReaderFrame
    \/ GetTextContentRejects /\ ReaderFrame

SpecDecode == InitChatReader /\ [][NextDecode]_vars

\* ---- the chat panel opened after another book was read and discussed -----------
\* both stores are module singletons: what an earlier reader left for the other
\* book is still there
InitClear ==
    /\ InitExtraction
    /\ bookType = "pdf"
    /\ contextChunks = [b \in Books |-> IF b = bookId THEN <<>>
                                       ELSE <<pdfChunk(1, <<Run("a", 1)>>)>>]
    /\ currentBookId = bookId
    /\ currentPosition = 0
    /\ lastOp = "initializeContext"
    /\ chatHistory = [b \in Books \ {bookId} |->
                         <<Message("user", <<Run("a", 1)>>),
                           Message("assistant", <<Fragment(0, 1)>>)>>]
    /\ isLoading = FALSE
    /\ streamingResponse = <<>>
    /\ error = "null"
    /\ abortControllerRef = 0
    /\ requests = <<>>
    /\ hookIsLoading = FALSE
    /\ InitRelay

SpecClear == InitClear /\ [][NextChat]_vars

\* ---- one accepted request of the Gateway relay --------------------------------
RelayFrame ==
    UNCHANGED <<storeVars, extractVars, chatHistory, isLoading, streamingResponse, error,
                abortControllerRef, requests, hookIsLoading>>

RelayStart == \E hasReader \in BOOLEAN : relayStart(hasReader)
UpstreamReadResolves ==
    \E whole \in UpstreamLines, cutLast \in BOOLEAN : upstreamReadResolves(whole, cutLast)

NextRelay ==
    \/ RelayStart /\ RelayFrame
    \/ UpstreamReadResolves /\ RelayFrame
    \/ upstreamReadDone /\ RelayFrame
    \/ upstreamReadRejects /\ RelayFrame
    \/ clientRead /\ RelayFrame

SpecRelay == InitChatReader /\ [][NextRelay]_vars

(***************************************************************************)
(* Properties                                                              *)
(***************************************************************************)
\* t occurs in out as a contiguous piece
ContainsText(out, t) ==
    \E i \in 0..(Len(out) - Len(t)) : SubSeq(out, i + 1, i + Len(t)) = t

\* C1 (spoiler invariant): for every book and every bound P, the text that
\* getFullContext and getContextUpToPosition return bounded at P contains the text
\* of a stored chunk exactly when the chunk's numeric position is <= P.
C1_SpoilerInvariant ==
    \A b \in Books : \A P \in 0..(MaxPos + 1) :
        \A i \in 1..Len(ChunksOf(contextChunks, b)) :
            LET c == ChunksOf(contextChunks, b)[i]
                atOrBelow == chunkPos(c.pageOrChapter) <= P
            IN  /\ ContainsText(getFullContext(b, Some(P)), c.text) <=> atOrBelow
                /\ ContainsText(getContextUpToPosition(b, P), c.text) <=> atOrBelow

\* a book holds chunks on both sides of the bound 0, one of them under a string key,
\* right after a replacement
C1_Witness ==
    /\ lastOp = "addContextChunk:replace"
    /\ \E b \in Books :
        LET cs == ChunksOf(contextChunks, b)
        IN  /\ \E i \in 1..Len(cs) : chunkPos(cs[i].pageOrChapter) > 0
            /\ \E i \in 1..Len(cs) : ~cs[i].pageOrChapter.isNumber /\ chunkPos(cs[i].pageOrChapter) <= 0
            /\ getFullContext(b, Some(0)) # <<>>
            /\ getFullContext(b, Some(0)) # getFullContext(b, Undefined)

\* C7 (merge wins longer): addContextChunk for a key that already has a chunk keeps
\* the number of chunks; it leaves the whole store unchanged when the new text is not
\* longer than the stored one, and puts the new chunk in the old one's place when it
\* is strictly longer.
C7_MergeWinsLonger ==
    [][\A b \in Books, c \in ChunkInputs :
          LET old == ChunksOf(contextChunks, b)
              i == findIndex(old, c.pageOrChapter)
              new == ChunksOf(contextChunks', b)
          IN  (addContextChunk(b, c) /\ i > 0) =>
                 /\ Len(new) = Len(old)
                 /\ TextLength(c.text) <= TextLength(old[i].text) => contextChunks' = contextChunks
                 /\ TextLength(c.text) > TextLength(old[i].text) =>
                       /\ new[i] = c
                       /\ \A j \in 1..Len(old) : j # i => new[j] = old[j]
      ]_vars

\* a chunk has just been left alone by a chunk of the same length for its key
C7_Witness ==
    /\ lastOp = "addContextChunk:keep-equal"
    /\ \E b \in Books : \E i \in 1..Len(ChunksOf(contextChunks, b)) :
          Len(ChunksOf(contextChunks, b)[i].text) > 1

IsNumericString(str) == str # <<>> /\ \A i \in 1..Len(str) : IsDigit(str[i])
IsNumericKey(k) == k.isNumber \/ IsNumericString(k.str)

\* C8 (uniqueness): when every key of a book is an integer or a numeric string, no
\* two chunks of the book have the same numeric position.
C8_Uniqueness ==
    \A b \in Books :
        LET cs == ChunksOf(contextChunks, b)
        IN  (\A i \in 1..Len(cs) : IsNumericKey(cs[i].pageOrChapter)) =>
                \A i \in 1..Len(cs), j \in 1..Len(cs) :
                    i # j => chunkPos(cs[i].pageOrChapter) # chunkPos(cs[j].pageOrChapter)

\* the texts of the chunks of cs at or below P, in the order of cs, with the
\* separator between them
RECURSIVE TextsUpTo(_, _, _)
TextsUpTo(cs, P, started) ==
    IF cs = <<>> THEN <<>>
    ELSE IF chunkPos(Head(cs).pageOrChapter) <= P
         THEN (IF started THEN <<Run("sep", 0)>> ELSE <<>>) \o Head(cs).text
                 \o TextsUpTo(Tail(cs), P, TRUE)
         ELSE TextsUpTo(Tail(cs), P, started)

\* C9 (ordering): the stored list of every book is ascending by numeric position,
\* and getFullContext is the texts of the selected chunks in that order with a blank
\* line between them, so the markers in the output ascend.
C9_Ordering ==
    \A b \in Books :
        LET cs == ChunksOf(contextChunks, b)
        IN  /\ \A i \in 1..(Len(cs) - 1) :
                  chunkPos(cs[i].pageOrChapter) <= chunkPos(cs[i + 1].pageOrChapter)
            /\ \A P \in 0..(MaxPos + 1) :
                  LET out == getFullContext(b, Some(P))
                  IN  /\ out = TextsUpTo(cs, P, FALSE)
                      /\ \A i \in 1..Len(out), j \in 1..Len(out) :
                            (i < j /\ out[i].k = "page" /\ out[j].k = "page") => out[i].n <= out[j].n
            /\ getFullContext(b, Undefined) = TextsUpTo(cs, MaxPos + 1, FALSE)

\* a chunk has just been added that did not belong at the end of the list
C9_Witness ==
    /\ lastOp = "addContextChunk:insert"
    /\ \E b \in Books : Len(ChunksOf(contextChunks, b)) = MaxChunks

\* the size of the slices of lines 78-81
BatchSize == 3

\* C4 (concurrency cap): no extractPDFPagesUpTo call has more than 3 page
\* extractions (page fetch or text retrieval) pending.
C4_ConcurrencyCap ==
    \A k \in 1..Len(calls) : Cardinality(DOMAIN calls[k].pending) <= BatchSize

\* the number of operations of the given kind pending for page p
RECURSIVE PendingCount(_, _, _)
PendingCount(cs, p, op) ==
    IF cs = <<>> THEN 0
    ELSE (IF p \in DOMAIN Head(cs).pending /\ Head(cs).pending[p] = op THEN 1 ELSE 0)
            + PendingCount(Tail(cs), p, op)

\* this step asked the PDF document for page p or for its text
PdfIOIssued(p) ==
    \/ PendingCount(calls', p, "getPage") > PendingCount(calls, p, "getPage")
    \/ PendingCount(calls', p, "getTextContent") > PendingCount(calls, p, "getTextContent")

\* the chunks the book of the reader holds for position p
ChunksAt(chunks, p) == SelectSeq(ChunksOf(chunks, bookId), LAMBDA c : c.pageOrChapter = NumberKey(p))

\* this step is a request to extract position p
ExtractionRequested(p) ==
    \/ \E N \in p..MaxPage : setCurrentPage(N) \/ (restorePosition(N) /\ N # currentPage)
    \/ \E k \in 1..Len(calls) : getPageResolves(k, p)
    \/ \E f \in Fractions : floorPercent(f) = p /\
          (\/ \E c \in ContentsInputs : relocated(f, c, FALSE)
           \/ relocated(f, <<>>, TRUE))

\* C10 as stated (dedup idempotence): a request to extract a position that is in
\* done changes no chunk of that position and asks the document for nothing: no page
\* fetch, no text retrieval, no read of the rendered text.
C10_Original ==
    [][\A p \in extractedPagesRef :
          ExtractionRequested(p) =>
             /\ ChunksAt(contextChunks', p) = ChunksAt(contextChunks, p)
             /\ ~PdfIOIssued(p)
             /\ p \notin viewRead'
      ]_vars

\* C10 as amended: a request to extract a position that is in done changes no chunk
\* of that position, and for a PDF page it issues neither a page fetch nor a text
\* retrieval (extractEPUBText reads the rendered text before it looks at done).
C10_DedupIdempotence ==
    [][\A p \in extractedPagesRef :
          ExtractionRequested(p) =>
             /\ ChunksAt(contextChunks', p) = ChunksAt(contextChunks, p)
             /\ ~PdfIOIssued(p)
      ]_vars

\* extractPDFPagesUpTo has just been called over a range that holds a done page
C10_Witness ==
    /\ lastOp = "extractPDFPagesUpTo:dedup"
    /\ \E p \in extractedPagesRef : p <= currentPage /\ ChunksAt(contextChunks, p) # <<>>

\* C2 (the tracker is the sole bound): the context of every request handed to fetch
\* contains the text of no chunk whose position is above the Position Tracker's
\* currentPosition at that moment.
C2_TrackerIsSoleBound ==
    [][\A r \in 1..Len(requests') :
          (r > Len(requests) /\ requests'[r].pc = "fetch") =>
              \A i \in 1..Len(ChunksOf(contextChunks, bookId)) :
                  LET c == ChunksOf(contextChunks, bookId)[i]
                  IN  ContainsText(requests'[r].context, c.text) =>
                          chunkPos(c.pageOrChapter) <= currentPosition
      ]_vars

\* the fragments of request r that are in the text
FragmentsIn(text, r) == {i \in 1..Len(text) : text[i].k = "tok" /\ text[i].n \div 10 = r}

\* the fragments of request r that are in the history of the reader's book
RECURSIVE HistoryFragments(_, _)
HistoryFragments(h, r) ==
    IF h = <<>> THEN 0
    ELSE Cardinality(FragmentsIn(Head(h).content, r)) + HistoryFragments(Tail(h), r)

\* nothing of request r reaches the history, the buffer or the error in this step
Silent(r) ==
    /\ HistoryFragments(HistoryOf(chatHistory', bookId), r)
          <= HistoryFragments(HistoryOf(chatHistory, bookId), r)
    /\ Cardinality(FragmentsIn(streamingResponse', r)) <= Cardinality(FragmentsIn(streamingResponse, r))

\* C3 (stale-request suppression): when request B starts while request A is
\* unresolved, the session shows B's start (loading, no error, empty buffer, B's
\* controller stored), and from then on nothing of A reaches history or buffer.
C3_StaleRequestSuppression ==
    [][/\ \A a \in 1..Len(requests) :
            (InFlight(a) /\ Len(requests') > Len(requests)
                         /\ requests'[Len(requests')].pc = "fetch") =>
                /\ isLoading'
                /\ abortControllerRef' = Len(requests')
                /\ error' = "null"
                /\ streamingResponse' = <<>>
       /\ \A a \in 1..Len(requests) : requests[a].fate = "aborted" => Silent(a)
      ]_vars

\* the positions sendMessage is called with
PositionInputs ==
    {Undefined} \cup {Some(q) : q \in (0..ChatPages) \cup {currentPosition}}

\* the book of the reader has no chunk at or below the effective position
NothingReadUpTo(position) ==
    LET effectivePosition == IF position.defined THEN position.v ELSE currentPosition
    IN  \A i \in 1..Len(ChunksOf(contextChunks, bookId)) :
            chunkPos(ChunksOf(contextChunks, bookId)[i].pageOrChapter) > effectivePosition

\* C5 (empty-context guard): a sendMessage call that passes its guard while the book
\* has no chunk at or below the effective position never reaches fetch, sets the
\* "No content has been read yet" error and leaves isLoading false; a request that
\* did not reach fetch never does later.
C5_EmptyContextGuard ==
    [][/\ \A m \in MessageInputs, position \in PositionInputs :
            (sendMessage(m, position) /\ trim(m) # <<>> /\ ~hookIsLoading
                                      /\ NothingReadUpTo(position)) =>
                /\ Len(requests') = Len(requests) + 1
                /\ requests'[Len(requests')].pc = "done"
                /\ requests'[Len(requests')].fate = "blocked"
                /\ error' = NoContentError
                /\ ~isLoading'
       /\ \A r \in 1..Len(requests) : requests[r].pc = "done" => requests'[r] = requests[r]
      ]_vars

\* the guard has just stopped a message although the book has chunks (all of them
\* above the bound)
C5_Witness ==
    /\ lastOp = "sendMessage:blocked"
    /\ hasContext(bookId)
    /\ error = NoContentError
    /\ ~isLoading

\* this step is a call of cancelRequest
CancelCalled == cancelRequest /\ ChatFrame

\* C6 (cancellation outcome): a cancelRequest call made while a request is in flight
\* leaves isLoading false and no request in flight, without touching error or
\* history; a request that was aborted never adds to history or buffer afterwards,
\* and the step that ends a request by abort sets no error.
C6_CancellationOutcome ==
    [][/\ (CancelCalled /\ \E r \in 1..Len(requests) : InFlight(r)) =>
             /\ ~isLoading'
             /\ \A r \in 1..Len(requests') : requests'[r].pc = "done"
             /\ error' = error
             /\ chatHistory' = chatHistory
       /\ \A r \in 1..Len(requests) : requests[r].fate = "aborted" => Silent(r)
      ]_vars

\* the call list without the call at index k
WithoutCall(cs, k) == SubSeq(cs, 1, k - 1) \o SubSeq(cs, k + 1, Len(cs))

\* this step is one in which an extractPDFPagesUpTo(doc, N) call returns: the last
\* pending extraction of a call for N settles, or a call for N finds nothing to start
CallFinished(N) ==
    \/ \E k \in 1..Len(calls) : calls[k].currentPage = N /\ calls' = WithoutCall(calls, k)
    \/ /\ candidatePages(N) = {}
       /\ setCurrentPage(N) \/ (restorePosition(N) /\ N # currentPage)

\* the position the call for N is to leave, given the done set
PostPosition(extracted, N) ==
    IF \E p \in extracted : p <= N THEN Max({p \in extracted : p <= N}) ELSE N

\* C11 (paginated position postcondition): when extractPDFPagesUpTo(doc, N) returns,
\* the Position Tracker is the largest page of done that is <= N, or N when done has
\* no page <= N; so it is a positive integer <= N.
C11_PositionPostcondition ==
    [][\A N \in 1..MaxPage :
          CallFinished(N) =>
              /\ currentPosition' = PostPosition(extractedPagesRef', N)
              /\ currentPosition' \in 1..N
      ]_vars

\* an extraction of page p (page fetch or text retrieval) has not settled
ExtractionPending(cs, queue, p) ==
    \/ p \in queue
    \/ \E k \in 1..Len(cs) : p \in DOMAIN cs[k].pending

\* C12 (position never ahead of extraction): when a returning extractPDFPagesUpTo
\* call sets the Position Tracker to P, no extraction of a page in 1..P is pending.
C12_PositionNotAheadOfExtraction ==
    [][\A N \in 1..MaxPage :
          CallFinished(N) =>
              \A p \in 1..currentPosition' :
                  ~ExtractionPending(calls', extractionQueueRef', p)
      ]_vars

\* C13 (position monotonicity): no step of the Extraction Coordinator (a call of
\* extractPDFPagesUpTo returning, extractEPUBText) lowers the Position Tracker.
C13_PositionMonotonic ==
    [][currentPosition' >= currentPosition]_vars

\* the whole-percent bucket of a read fraction given in thousandths
Bucket(f) == f \div 10

\* the last step was an extractEPUBText call that got to its updatePosition
EpubFollowed ==
    lastOp \in {"extractEPUBText:stored", "extractEPUBText:done", "extractEPUBText:none"}

\* a call in the bucket of the call before it moves nothing and adds no second chunk
SameBucketCall(f) ==
    (/\ \/ \E c \in ContentsInputs : relocated(f, c, FALSE)
        \/ relocated(f, <<>>, TRUE)
     /\ EpubFollowed
     /\ Bucket(currentPercentage) = Bucket(f)) =>
        /\ currentPosition' = currentPosition
        /\ Len(ChunksAt(contextChunks', Bucket(f))) <= 1

FailedFates == {"failed", "blocked"}

\* request r fails in this step
Fails(r) ==
    /\ r \in 1..Len(requests')
    /\ requests'[r].fate \in FailedFates
    /\ r > Len(requests) \/ requests[r].fate \notin FailedFates

\* the new history keeps every old entry in place and adds user messages at most
KeepsHistory(old, new) ==
    /\ Len(old) <= Len(new)
    /\ SubSeq(new, 1, Len(old)) = old
    /\ \A i \in (Len(old) + 1)..Len(new) : new[i].role = "user"

\* C15 (chat failure recovery): the step in which a request fails (empty context,
\* transport failure, non-2xx response, error during streaming) leaves isLoading
\* false and error set, keeps every earlier history entry, leaves no assistant
\* message of the failed request in the history, and does not touch the Context Store.
C15_ChatFailureRecovery ==
    [][\A r \in 1..Len(requests') :
          Fails(r) =>
              /\ ~isLoading'
              /\ error' # "null"
              /\ KeepsHistory(HistoryOf(chatHistory, bookId), HistoryOf(chatHistory', bookId))
              /\ HistoryFragments(HistoryOf(chatHistory', bookId), r) = 0
              /\ contextChunks' = contextChunks
      ]_vars

\* C16 (BookContext lifecycle): when the reader of a book is torn down, the Context
\* Store afterwards holds no chunk for the book and hasContext(book) is false.
C16_ContextDiscardedOnTeardown ==
    [][unmountReader => Len(ChunksOf(contextChunks', bookId)) = 0]_vars

\* the requests that are Sending or Streaming
Outstanding == {r \in 1..Len(requests) : InFlight(r)}

\* C17 (single-flight precondition): a sendMessage call with text that is empty
\* after trimming, or made while a request is in flight, changes neither history,
\* error, buffer nor any request; and at most one request is in flight at any time.
C17_SingleFlight ==
    [][/\ \A m \in MessageInputs, position \in PositionInputs :
            (sendMessage(m, position) /\ ChatFrame /\ (trim(m) = <<>> \/ Outstanding # {})) =>
                /\ chatHistory' = chatHistory
                /\ error' = error
                /\ streamingResponse' = streamingResponse
                /\ requests' = requests
       /\ Cardinality({r \in 1..Len(requests') : requests'[r].pc # "done"}) <= 1
      ]_vars

\* the content fragments 1..n of request r in arrival order
FragmentsOf(r, n) == [j \in 1..n |-> Fragment(r, j)]

\* C18 (streaming finalize): when the [DONE] line of a request that received n >= 1
\* fragments is read, one assistant message with the n fragments in arrival order is
\* appended at the end of the book's history and the buffer is empty; when the
\* stream of that request then ends, no further message is appended, the buffer is
\* empty and isLoading is false.
C18_StreamingFinalize ==
    [][\A r \in 1..Len(requests) :
          /\ (/\ requests[r].pc = "read" /\ ~requests[r].doneSent
              /\ requests'[r].pc = "read" /\ requests'[r].doneSent
              /\ requests'[r].frags >= 1) =>
                 /\ HistoryOf(chatHistory', bookId) =
                       Append(HistoryOf(chatHistory, bookId),
                              Message("assistant", FragmentsOf(r, requests'[r].frags)))
                 /\ streamingResponse' = <<>>
          /\ (/\ requests[r].pc = "read" /\ requests[r].doneSent
              /\ requests'[r].fate = "finished") =>
                 /\ chatHistory' = chatHistory
                 /\ streamingResponse' = <<>>
                 /\ ~isLoading'
      ]_vars

\* the contents of the assistant messages of a history, one after the other
RECURSIVE AssistantText(_)
AssistantText(h) ==
    IF h = <<>> THEN <<>>
    ELSE (IF Head(h).role = "assistant" THEN Head(h).content ELSE <<>>) \o AssistantText(Tail(h))

\* C19 (stream decoding is independent of transport chunking): when the response
\* body of a request whose lines ended with [DONE] has been read to its end, the
\* assistant text in the history is the concatenation of all content fragments that
\* arrived, however the lines were split into reads.
C19_DecodingIndependentOfChunking ==
    [][\A r \in 1..Len(requests) :
          (/\ requests[r].pc = "read" /\ requests[r].doneSent
           /\ requests'[r].fate = "finished") =>
              AssistantText(HistoryOf(chatHistory', bookId)) = FragmentsOf(r, requests[r].frags)
      ]_vars

\* this step is the failure of the page fetch or of the text retrieval of page i in
\* the call at index k
PageFails(k, i) == getPageRejects(k, i) \/ getTextContentRejects(k, i)

\* the failure of page i in the call at index k leaves the other pages of the call
\* as they were and changes nothing that is stored
OthersGoOn(k, i) ==
    /\ contextChunks' = contextChunks
    /\ extractedPagesRef' = extractedPagesRef
    /\ \A j \in (DOMAIN calls[k].pending) \ {i} :
          /\ Len(calls') = Len(calls)
          /\ j \in DOMAIN calls'[k].pending
          /\ calls'[k].pending[j] = calls[k].pending[j]

\* a call for N that finds page p in neither set asks the document for it
AttemptedAgain ==
    \A N \in 1..MaxPage, p \in 1..MaxPage :
        (/\ setCurrentPage(N) \/ (restorePosition(N) /\ N # currentPage)
         /\ p <= N /\ p \notin extractedPagesRef /\ p \notin extractionQueueRef) =>
            /\ Len(calls') = Len(calls) + 1
            /\ p \in DOMAIN calls'[Len(calls')].pending
            /\ calls'[Len(calls')].pending[p] = "getPage"

\* C20 as stated (extraction failure isolation): when the page fetch or the text
\* retrieval of a page fails, the other pages of the call go on, the failed page is in
\* neither inFlight nor done afterwards, and a later call covering it attempts it again.
C20_Original ==
    [][/\ \A k \in 1..Len(calls), i \in 1..MaxPage :
             PageFails(k, i) =>
                 /\ OthersGoOn(k, i)
                 /\ i \notin extractionQueueRef'
                 /\ i \notin extractedPagesRef'
       /\ AttemptedAgain
      ]_vars

\* what holds of a failure next to overlapping calls: the failure itself puts the
\* page in neither set. The page is in inFlight afterwards only while another call is
\* retrieving its text, and in done only when it was there before the failure.
C20_FailureIsolation ==
    [][/\ \A k \in 1..Len(calls), i \in 1..MaxPage :
             PageFails(k, i) =>
                 /\ OthersGoOn(k, i)
                 /\ i \in extractionQueueRef' =>
                        \E k2 \in (1..Len(calls)) \ {k} :
                            /\ i \in DOMAIN calls[k2].pending
                            /\ calls[k2].pending[i] = "getTextContent"
                 /\ i \in extractedPagesRef' => i \in extractedPagesRef
       /\ AttemptedAgain
      ]_vars

\* a call for page 2 has returned with the failure of page 1 as its last step: page 2
\* is stored and in done, page 1 is in neither set and has no chunk
C20_Witness ==
    /\ lastOp = "pdf:io:error"
    /\ calls = <<>>
    /\ currentPage = 2
    /\ extractedPagesRef = {2}
    /\ extractionQueueRef = {}
    /\ Len(ChunksAt(contextChunks, 2)) = 1
    /\ Len(ChunksAt(contextChunks, 1)) = 0

\* the batch (lines 78-81) that page p of the candidate pages cand falls in
BatchOf(cand, p) == Cardinality({q \in cand : q < p}) \div BatchSize

\* C21 (batch ordering): a step in which an extractPDFPagesUpTo call issues the page
\* fetch of a page of a later batch leaves no extraction of an earlier batch of that
\* call pending.
C21_BatchOrdering ==
    [][(Len(calls') = Len(calls) + 1) =>
          LET started == calls'[Len(calls')].pending
              cand == DOMAIN started
          IN  \A p \in cand, q \in cand :
                  (started[p] = "getPage" /\ BatchOf(cand, q) < BatchOf(cand, p)) =>
                      ~ExtractionPending(calls', extractionQueueRef', q)
      ]_vars

\* C22 (inFlight and done are disjoint): no position is in both extractionQueueRef
\* and extractedPagesRef.
C22_InFlightDoneDisjoint == extractionQueueRef \cap extractedPagesRef = {}

\* two calls overlap after a resetExtraction, with a page in each set
C22_Witness ==
    /\ Len(calls) = 2
    /\ extractionQueueRef # {}
    /\ extractedPagesRef # {}
    /\ \E k \in 1..Len(calls), i \in extractedPagesRef :
          i \in DOMAIN calls[k].pending /\ calls[k].pending[i] = "getTextContent"

\* the content events of what the client received
ContentReceived == SelectSeq(stream.received, LAMBDA e : e.k = "content")

\* C23 (Gateway output framing): what the client receives is the upstream content
\* fragments in upstream order, then exactly one terminal event, the [DONE] sentinel or
\* an error; nothing follows the terminal event, and the stream does not end without
\* one.
C23_GatewayFraming ==
    LET out == stream.received
    IN  /\ \A i \in 1..Len(out) :
              out[i].k \in {"done", "error"} => \A j \in (i + 1)..Len(out) : out[j].k = "end"
        /\ \A i \in 1..Len(out) :
              out[i].k = "end" => (i > 1 /\ out[i - 1].k = "done")
        /\ \A i \in 1..Len(ContentReceived) : ContentReceived[i] = ContentEvent(i)
        /\ (\E i \in 1..Len(out) : out[i].k = "done") => Len(ContentReceived) = relay.frags

\* C24 (resetExtraction frame): resetExtraction empties inFlight and done and leaves
\* the chunks of every book and the Position Tracker unchanged.
C24_ResetExtractionFrame ==
    [][resetExtraction =>
          /\ extractionQueueRef' = {}
          /\ extractedPagesRef' = {}
          /\ contextChunks' = contextChunks
          /\ currentPosition' = currentPosition
      ]_vars

\* resetExtraction has run with chunks stored, a position set and a text retrieval
\* still pending
C24_Witness ==
    /\ lastOp = "resetExtraction"
    /\ Len(ChunksOf(contextChunks, bookId)) > 0
    /\ currentPosition > 0
    /\ \E k \in 1..Len(calls) : \E i \in DOMAIN calls[k].pending :
          calls[k].pending[i] = "getTextContent"

\* C25 (clearChat frame): clearChat removes every message of the history of the book,
\* whatever the requests are doing, and leaves the histories of the other books, the
\* chunks of every book and the Position Tracker unchanged.
C25_ClearChatFrame ==
    [][clearChat =>
          /\ HistoryOf(chatHistory', bookId) = <<>>
          /\ \A b \in Books \ {bookId} : HistoryOf(chatHistory', b) = HistoryOf(chatHistory, b)
          /\ contextChunks' = contextChunks
          /\ currentPosition' = currentPosition
      ]_vars

\* clearChat has run while a request is streaming, with chunks stored, a position set
\* and a history of the other book
C25_Witness ==
    /\ lastOp = "clearChat"
    /\ \E r \in Outstanding : requests[r].pc = "read" /\ requests[r].frags > 0
    /\ \E b \in Books \ {bookId} : Len(HistoryOf(chatHistory, b)) > 0
    /\ Len(ChunksOf(contextChunks, bookId)) > 0
    /\ currentPosition > 0

\* C26 (loading and cancel-handle consistency): while a request that was neither
\* cancelled nor superseded is outstanding, isLoading is true and the stored abort
\* controller is the controller of that request.
C26_LoadingHandleConsistency ==
    \A r \in Outstanding :
        requests[r].fate = "pending" => (isLoading /\ abortControllerRef = r)

\* C27 (history shape): in the history of every book each assistant message comes
\* right after a user message; so no history starts with an assistant message or
\* holds two assistant messages in a row.
C27_HistoryShape ==
    \A b \in DOMAIN chatHistory :
        \A i \in 1..Len(chatHistory[b]) :
            chatHistory[b][i].role = "assistant" =>
                (i > 1 /\ chatHistory[b][i - 1].role = "user")

\* the extraction operations (page fetch or text retrieval) pending for page p
PendingOps(cs, p) == PendingCount(cs, p, "getPage") + PendingCount(cs, p, "getTextContent")

\* C28 (no duplicate concurrent extraction): no page has two extraction operations
\* pending at the same time, and a text retrieval starts only for a page that is not
\* in done and has no text retrieval pending.
C28_NoDuplicateExtraction ==
    [][\A p \in 1..MaxPage :
          /\ PendingOps(calls', p) <= 1
          /\ PendingCount(calls', p, "getTextContent") > PendingCount(calls, p, "getTextContent") =>
                (p \notin extractedPagesRef /\ PendingCount(calls, p, "getTextContent") = 0)
      ]_vars

\* C29 (done implies stored): every position in done has a chunk in the Context Store
\* under the bookId the reader is serving.
C29_DoneImpliesStored ==
    \A p \in extractedPagesRef : Len(ChunksAt(contextChunks, p)) > 0

\* the pages that the calls hold in inFlight: those whose text they are retrieving
HeldPages(cs) ==
    {p \in 1..BatchPages : \E k \in 1..Len(cs) :
        p \in DOMAIN cs[k].pending /\ cs[k].pending[p] = "getTextContent"}

====
